---- MODULE Spec2Model ----
(***************************************************************************)
(* Verification model of universal-code-rag:                               *)
(*   - the incremental indexing pipeline (indexer.py, state_manager.py),   *)
(*   - the hybrid retrieval engine (rag.py),                               *)
(*   - the adaptive chunk-extraction cascade (chunkers/).                  *)
(* Each part has its own specification over the shared variables:          *)
(*   Spec          indexing runs over a small file tree                    *)
(*   SpecSearch    index builds and hybrid queries over a small collection *)
(*   SpecExtract   chunker construction and extraction over short texts    *)
(*   SpecStale     indexing runs with edits that keep a file's mtime       *)
(*   SpecTracker   indexing runs with tracker and store failures           *)
(*   SpecIds       id allocation over commits, clears and restarts         *)
(*   SpecRace      indexing runs with edits of files during a run          *)
(*   SpecForce     re-indexing after a reset of the tracker alone          *)
(*   SpecRebuild   rebuilds of the lexical index that may fail partway     *)
(***************************************************************************)
EXTENDS Integers, Sequences, FiniteSets, TLC

(***************************************************************************)
(* Bounds of the model                                                     *)
(***************************************************************************)
\* number of file paths that may exist under the indexed root
NumFiles == 2
\* latest time the clock reaches: every file starts with mtime 1, and each
\* touch stamps the file with the next clock value
MaxTime == 2
\* how many chunks extraction yields for a file: an empty file, or two chunks
ChunkCounts == {0, 2}
\* the batch_size arguments tried: a flush after every file that has chunks,
\* and a batch that no single file fills
BatchSizes == {1, 3}
\* indexer.py:179 uses parallel processing above 10 files; the model scales
\* the threshold down so that both dispatch modes occur on a small tree
ParallelThreshold == 1

None == "None"

Files == 1..NumFiles

(***************************************************************************)
(* State                                                                   *)
(***************************************************************************)
VARIABLES
    \* the environment: the file tree under the root
    tree,           \* candidate files found by _discover_files
    clock,          \* the latest time stamp handed out (time.time())
    mtime,          \* on-disk st_mtime of each file
    nchunks,        \* how many chunks extraction yields for the file's content
    \* StateManager: table files(filepath PRIMARY KEY, mtime)
    state_db,       \* the rows: a function from the stored paths to their stored mtime
    \* ChromeRAGSystem: collection and id counter
    collection,     \* sequence of stored records
    chunk_counter,  \* self._chunk_counter
    \* ChromeIndexer.index_directory
    pc,             \* "idle" | "loop"
    stats,          \* self.stats
    todo,           \* files to process whose worker has not run yet, in order
    results,        \* worker results completed and not yet consumed (pool)
    batch,          \* chunks accumulated and not yet flushed
    batch_size,     \* batch size of the run
    use_parallel,   \* whether the run uses the process pool
    pool,           \* "none" | "running" | "terminated" | "closed"
    \* the caller's view
    outcome,        \* how the most recent call ended ("running" during a call); it returned stats
    prev,           \* during a call: how the call before it ended (PrevSummary)
    touched,        \* files whose mtime advanced since the most recent call
    run_touched,    \* during a call: the files whose mtime advanced between the call before it and this one
    run_start,      \* during a call: files_to_process, and the tracker rows and the record count the call found
    \* the failures of the tracker's database during the most recent call
    read_errors,    \* files whose lookup in should_process raised
    write_errors,   \* files whose upsert in mark_processed raised
    lost_before,    \* during a call: the write_errors of the call before it
    faults          \* how many calls to the tracker or the store have raised so far

VARIABLES
    \* ChromeRAGSystem: the lexical index
    bm25,             \* self.bm25: "None" or "BM25Okapi"
    bm25_ids,         \* self.bm25_ids
    bm25_metadatas,   \* self.bm25_metadatas
    bm25_corpus,      \* the ids of the documents self.bm25 was built over
    \* ChromeRAGSystem.retrieve_context
    spc,              \* "ready" | "answered": a call has returned final_results
                      \* | "raised": the call ended with an exception
    query,            \* the arguments and the scorers' outcomes of the call
    vector_results,   \* dense ranked list
    keyword_results,  \* lexical ranked list
    combined_results, \* the fused ranking as _rrf_fusion returned it
    final_results     \* the list returned

VARIABLES
    \* AdaptiveChunker
    xpc,              \* "none" | "ready" | "returned" | "raised" (an exception reached the caller)
    chunker_language, \* self.language
    query_scm,        \* self.query_scm: "None" or "query"
    ts_chunker,       \* self.ts_chunker: "None" or "GenericTreeSitterChunker"
    source_code,      \* code: the text given to extract_chunks, a sequence of characters
    ts_result,        \* what the grammar-driven strategy did in the call
    returned_chunks   \* the list extract_chunks returned

envVars == <<tree, clock, mtime, nchunks>>
ragVars == <<collection, chunk_counter>>
runVars == <<pc, stats, todo, results, batch, batch_size, use_parallel, pool>>
callerVars == <<outcome, prev, touched, run_touched, run_start>>
faultVars == <<read_errors, write_errors, lost_before, faults>>
indexVars == <<envVars, state_db, runVars, callerVars, faultVars>>
searchVars == <<bm25, bm25_ids, bm25_metadatas, bm25_corpus, spc, query,
                vector_results, keyword_results, combined_results, final_results>>
extractVars == <<xpc, chunker_language, query_scm, ts_chunker, source_code,
                 ts_result, returned_chunks>>
\* what an indexing step leaves alone
nonIndexVars == <<searchVars, extractVars>>
\* what a retrieval step leaves alone
nonSearchVars == <<indexVars, extractVars>>
vars == <<indexVars, ragVars, searchVars, extractVars>>

(***************************************************************************)
(* Helpers                                                                 *)
(***************************************************************************)
RECURSIVE SortedSeq(_)
\* the members of a set of integers as an ascending sequence (os.walk order)
SortedSeq(S) ==
    IF S = {} THEN <<>>
    ELSE LET m == CHOOSE x \in S : \A y \in S : x <= y
         IN <<m>> \o SortedSeq(S \ {m})

SeqRange(s) == {s[i] : i \in 1..Len(s)}

RemoveFrom(s, x) == SelectSeq(s, LAMBDA y : y # x)

\* no call is running
NoRun == [files |-> <<>>, state_db |-> <<>>, count |-> 0]

EmptyStats ==
    [files_processed |-> 0, files_skipped |-> 0, files_failed |-> 0,
     chunks_created |-> 0, errors |-> <<>>]

(***************************************************************************)
(* StateManager                                                            *)
(***************************************************************************)
\* a staleness test that selects every file (a forced re-index)
should_process_always(f) == TRUE

\* a staleness test that also selects a file whose mtime equals the stored one
should_process_ge(f) ==
    IF f \notin DOMAIN state_db THEN TRUE ELSE mtime[f] >= state_db[f]

\* should_process: a new file, or one modified since the last index
should_process(f) ==
    IF f \notin DOMAIN state_db THEN TRUE ELSE mtime[f] > state_db[f]

\* a mark_processed whose write is lost
mark_processed_lost(db, f) == db

\* mark_processed: INSERT OR REPLACE the file's current mtime
mark_processed(db, f) == (f :> mtime[f]) @@ db

(***************************************************************************)
(* process_file_worker                                                     *)
(***************************************************************************)
\* the chunks extraction yields for file f
ChunksOf(f) == [i \in 1..nchunks[f] |-> [file |-> f, k |-> i]]

\* (file_path, language, chunks, error): an exception while reading or
\* chunking (raises) comes back as the error message, with no chunks
\* read_mtime labels the result with the st_mtime the file had when the
\* worker read it (indexer.py:42-43)
process_file_worker(f, raises) ==
    IF raises
    THEN [file |-> f, chunks |-> <<>>, error |-> "read_error", read_mtime |-> mtime[f]]
    ELSE [file |-> f, chunks |-> ChunksOf(f), error |-> None, read_mtime |-> mtime[f]]

(***************************************************************************)
(* ChromeRAGSystem.add_chunks_batch                                        *)
(***************************************************************************)
\* a commit that replaces the records stored for the files of the batch
add_chunks_batch_collection_Upsert(coll, counter, chunks) ==
    SelectSeq(coll, LAMBDA r : \A i \in 1..Len(chunks) : chunks[i].file # r.chunk.file)
        \o [i \in 1..Len(chunks) |-> [id |-> counter + i - 1, chunk |-> chunks[i]]]

\* the records stored for a batch: ids chunk_<counter>, chunk_<counter+1>, ...
NewRecords(counter, chunks) ==
    [i \in 1..Len(chunks) |-> [id |-> counter + i - 1, chunk |-> chunks[i]]]

add_chunks_batch_collection(coll, counter, chunks) ==
    coll \o NewRecords(counter, chunks)

add_chunks_batch_counter(counter, chunks) == counter + Len(chunks)

\* no query has been issued and the lexical index is empty
NoQuery ==
    [n_results |-> 0, language |-> None, file_type |-> None,
     doc_scores |-> <<>>, vector_ok |-> TRUE, keyword_ok |-> TRUE]

SearchQuiet ==
    /\ bm25 = None
    /\ bm25_ids = <<>>
    /\ bm25_metadatas = <<>>
    /\ bm25_corpus = <<>>
    /\ spc = "ready"
    /\ query = NoQuery
    /\ vector_results = <<>>
    /\ keyword_results = <<>>
    /\ combined_results = <<>>
    /\ final_results = <<>>

\* the grammar-driven strategy did not run
NoTsResult == [ran |-> FALSE, failed |-> FALSE, chunks |-> <<>>]

\* no chunker has been constructed
ExtractQuiet ==
    /\ xpc = "none"
    /\ chunker_language = None
    /\ query_scm = None
    /\ ts_chunker = None
    /\ source_code = <<>>
    /\ ts_result = NoTsResult
    /\ returned_chunks = <<>>

(***************************************************************************)
(* Environment between runs                                                *)
(***************************************************************************)
\* os.utime / an edit: the file's modification time advances
Touch(f) ==
    /\ pc = "idle"
    /\ UNCHANGED <<nonIndexVars, faultVars>>
    /\ f \in tree
    /\ clock < MaxTime
    /\ clock' = clock + 1
    /\ mtime' = [mtime EXCEPT ![f] = clock + 1]
    /\ touched' = touched \cup {f}
    /\ UNCHANGED <<tree, nchunks, state_db, ragVars, runVars,
                   outcome, prev, run_touched, run_start>>

(***************************************************************************)
(* ChromeIndexer.index_directory                                           *)
(***************************************************************************)
NormalOutcomes == {"no_files", "up_to_date", "complete"}

\* how the most recent call ended, as the caller sees it from the returned stats
PrevSummary ==
    IF outcome \in NormalOutcomes
    THEN IF stats.files_failed = 0 THEN "clean" ELSE "failed"
    ELSE outcome

\* the call returns self.stats; its local variables are gone
Return(how) ==
    /\ outcome' = how
    /\ prev' = "none"
    /\ run_touched' = {}
    /\ run_start' = NoRun
    /\ touched' = {}
    /\ pc' = "idle"
    /\ todo' = <<>>
    /\ results' = {}
    /\ batch' = <<>>
    /\ batch_size' = 1
    /\ use_parallel' = FALSE

\* indexer.py:127-188: reset stats, discover, filter by staleness, open the pool
IndexDirectory(bs, parallel) ==
    /\ pc = "idle"
    /\ UNCHANGED <<nonIndexVars, faultVars>>
    /\ LET all_files == SortedSeq(tree)
           files_to_process == SelectSeq(all_files, should_process)
           skipped == Len(all_files) - Len(files_to_process)
           st == [EmptyStats EXCEPT !.files_skipped = skipped]
           par == parallel /\ Len(files_to_process) > ParallelThreshold
       IN IF all_files = <<>>
          THEN /\ stats' = EmptyStats
               /\ Return("no_files")
               /\ pool' = "none"
          ELSE IF files_to_process = <<>>
          THEN /\ stats' = st
               /\ Return("up_to_date")
               /\ pool' = "none"
          ELSE /\ stats' = st
               /\ todo' = files_to_process
               /\ results' = {}
               /\ batch' = <<>>
               /\ batch_size' = bs
               /\ use_parallel' = par
               /\ pool' = IF par THEN "running" ELSE "none"
               /\ pc' = "loop"
               /\ outcome' = "running"
               /\ prev' = PrevSummary
               /\ run_touched' = touched
               /\ run_start' = [files |-> files_to_process, state_db |-> state_db,
                                count |-> Len(collection)]
               /\ touched' = {}
    /\ UNCHANGED <<envVars, state_db, ragVars>>

\* the worker runs on one file. With the pool, files complete in any order
\* (imap_unordered); without it map() is lazy, so the worker runs on the next
\* file when the loop asks for the next result. Whether open() or the chunker
\* raises is the environment's choice
WorkerComplete(f, raises) ==
    /\ pc = "loop"
    /\ UNCHANGED <<nonIndexVars, faultVars>>
    /\ f \in SeqRange(todo)
    /\ IF use_parallel THEN pool = "running" ELSE results = {} /\ f = Head(todo)
    /\ todo' = RemoveFrom(todo, f)
    /\ results' = results \cup {process_file_worker(f, raises)}
    /\ UNCHANGED <<envVars, state_db, ragVars, pc, stats, batch, batch_size,
                   use_parallel, pool, callerVars>>

\* a loop body that marks the file processed although its worker failed
HandleResult_MarkOnError(r) ==
    IF r.error # None
    THEN /\ stats' = [stats EXCEPT !.files_failed = @ + 1,
                                   !.errors = Append(@, <<r.file, r.error>>)]
         /\ state_db' = mark_processed(state_db, r.file)
         /\ UNCHANGED <<batch, ragVars>>
    ELSE LET b == batch \o r.chunks
         IN /\ stats' = [stats EXCEPT !.files_processed = @ + 1,
                                      !.chunks_created = @ + Len(r.chunks)]
            /\ state_db' = mark_processed(state_db, r.file)
            /\ IF Len(b) >= batch_size
               THEN /\ collection' = add_chunks_batch_collection(collection, chunk_counter, b)
                    /\ chunk_counter' = add_chunks_batch_counter(chunk_counter, b)
                    /\ batch' = <<>>
               ELSE /\ batch' = b
                    /\ UNCHANGED ragVars

\* a loop body that logs a failed file without counting it
HandleResult_DropError(r) ==
    IF r.error # None
    THEN UNCHANGED <<stats, state_db, batch, ragVars>>
    ELSE LET b == batch \o r.chunks
         IN /\ stats' = [stats EXCEPT !.files_processed = @ + 1,
                                      !.chunks_created = @ + Len(r.chunks)]
            /\ state_db' = mark_processed(state_db, r.file)
            /\ IF Len(b) >= batch_size
               THEN /\ collection' = add_chunks_batch_collection(collection, chunk_counter, b)
                    /\ chunk_counter' = add_chunks_batch_counter(chunk_counter, b)
                    /\ batch' = <<>>
               ELSE /\ batch' = b
                    /\ UNCHANGED ragVars

\* a loop body whose accumulator holds the chunks of the latest file only
HandleResult_BatchReplaced(r) ==
    IF r.error # None
    THEN /\ stats' = [stats EXCEPT !.files_failed = @ + 1,
                                   !.errors = Append(@, <<r.file, r.error>>)]
         /\ UNCHANGED <<state_db, batch, ragVars>>
    ELSE LET b == r.chunks
         IN /\ stats' = [stats EXCEPT !.files_processed = @ + 1,
                                      !.chunks_created = @ + Len(r.chunks)]
            /\ state_db' = mark_processed(state_db, r.file)
            /\ IF Len(b) >= batch_size
               THEN /\ collection' = add_chunks_batch_collection(collection, chunk_counter, b)
                    /\ chunk_counter' = add_chunks_batch_counter(chunk_counter, b)
                    /\ batch' = <<>>
               ELSE /\ batch' = b
                    /\ UNCHANGED ragVars

\* indexer.py:191-216: one iteration of the loop over the worker results
HandleResult(r) ==
    IF r.error # None
    THEN /\ stats' = [stats EXCEPT !.files_failed = @ + 1,
                                   !.errors = Append(@, <<r.file, r.error>>)]
         /\ UNCHANGED <<state_db, batch, ragVars>>
    ELSE LET b == batch \o r.chunks
         IN /\ stats' = [stats EXCEPT !.files_processed = @ + 1,
                                      !.chunks_created = @ + Len(r.chunks)]
            /\ state_db' = mark_processed(state_db, r.file)
            /\ IF Len(b) >= batch_size
               THEN /\ collection' = add_chunks_batch_collection(collection, chunk_counter, b)
                    /\ chunk_counter' = add_chunks_batch_counter(chunk_counter, b)
                    /\ batch' = <<>>
               ELSE /\ batch' = b
                    /\ UNCHANGED ragVars

\* the loop takes the next result from the iterator
ConsumeResult(r) ==
    /\ pc = "loop"
    /\ UNCHANGED <<nonIndexVars, faultVars>>
    /\ r \in results
    /\ results' = results \ {r}
    /\ HandleResult(r)
    /\ UNCHANGED <<envVars, pc, todo, batch_size, use_parallel, pool, callerVars>>

\* an interrupt handler that leaves the pool running
Interrupt_NoTerminate ==
    /\ pc = "loop"
    /\ UNCHANGED <<nonIndexVars, faultVars>>
    /\ UNCHANGED pool
    /\ Return("interrupted")
    /\ UNCHANGED <<envVars, state_db, ragVars, stats>>

\* indexer.py:218-223: KeyboardInterrupt inside the loop
Interrupt ==
    /\ pc = "loop"
    /\ UNCHANGED <<nonIndexVars, faultVars>>
    /\ pool' = IF use_parallel THEN "terminated" ELSE pool
    /\ Return("interrupted")
    /\ UNCHANGED <<envVars, state_db, ragVars, stats>>

\* an end of the loop that returns without the final flush
Finish_NoFinalFlush ==
    /\ pc = "loop"
    /\ UNCHANGED <<nonIndexVars, faultVars>>
    /\ todo = <<>>
    /\ results = {}
    /\ pool' = IF use_parallel THEN "closed" ELSE pool
    /\ UNCHANGED ragVars
    /\ Return("complete")
    /\ UNCHANGED <<envVars, state_db, stats>>

\* indexer.py:224-237: the iterator is exhausted: close the pool, flush the rest
Finish ==
    /\ pc = "loop"
    /\ UNCHANGED <<nonIndexVars, faultVars>>
    /\ todo = <<>>
    /\ results = {}
    /\ pool' = IF use_parallel THEN "closed" ELSE pool
    /\ IF batch # <<>>
       THEN /\ collection' = add_chunks_batch_collection(collection, chunk_counter, batch)
            /\ chunk_counter' = add_chunks_batch_counter(chunk_counter, batch)
       ELSE UNCHANGED ragVars
    /\ Return("complete")
    /\ UNCHANGED <<envVars, state_db, stats>>

(***************************************************************************)
(* Specification of the indexing pipeline                                  *)
(***************************************************************************)
Init ==
    /\ tree \in {1..n : n \in 0..NumFiles}
    /\ clock = 1
    /\ mtime = [f \in Files |-> 1]
    /\ nchunks \in [Files -> ChunkCounts]
    /\ \A f \in Files \ tree : nchunks[f] = 0
    /\ state_db = <<>>
    /\ collection = <<>>
    /\ chunk_counter = 0
    /\ pc = "idle"
    /\ stats = EmptyStats
    /\ todo = <<>>
    /\ results = {}
    /\ batch = <<>>
    /\ batch_size = 1
    /\ use_parallel = FALSE
    /\ pool = "none"
    /\ outcome = "none"
    /\ prev = "none"
    /\ touched = {}
    /\ run_touched = {}
    /\ run_start = NoRun
    /\ read_errors = {}
    /\ write_errors = {}
    /\ lost_before = {}
    /\ faults = 0
    /\ SearchQuiet
    /\ ExtractQuiet

Next ==
    \/ \E f \in Files : Touch(f)
    \/ \E bs \in BatchSizes, parallel \in BOOLEAN : IndexDirectory(bs, parallel)
    \/ \E f \in Files, raises \in BOOLEAN : WorkerComplete(f, raises)
    \/ \E r \in results : ConsumeResult(r)
    \/ Interrupt
    \/ Finish

Spec == Init /\ [][Next]_vars

(***************************************************************************)
(* Properties of the indexing pipeline                                     *)
(***************************************************************************)
IsPrefix(a, b) == Len(a) <= Len(b) /\ SubSeq(b, 1, Len(a)) = a

\* the step is (part of) an index_directory call that returns normally
CallReturnsNormally ==
    /\ pc' = "idle"
    /\ outcome' \in NormalOutcomes
    /\ pc = "loop" \/ mtime' = mtime
\* how the call before the returning one ended
CtxPrev == IF pc = "loop" THEN prev ELSE PrevSummary
\* the files whose mtime advanced between that call and the returning one
CtxTouched == IF pc = "loop" THEN run_touched ELSE touched

\* C1 as stated: a second run over an unmodified tree yields
\* files_processed = 0 and files_skipped = total, whatever the first run did
C1_Original ==
    [][(CallReturnsNormally /\ CtxPrev \in {"clean", "failed"} /\ CtxTouched = {})
        => (stats'.files_processed = 0 /\ stats'.files_skipped = Cardinality(tree))]_vars

\* C1 (amended): when the first run ran to completion with files_failed = 0
\* and no file's mtime changed since, the second run processes nothing and
\* skips every candidate
C1_IdempotentReindex ==
    [][(CallReturnsNormally /\ CtxPrev = "clean" /\ CtxTouched = {})
        => (stats'.files_processed = 0 /\ stats'.files_skipped = Cardinality(tree))]_vars

\* a second run has skipped every file of a full tree whose chunks are stored
C1_Witness ==
    /\ outcome = "up_to_date"
    /\ tree = Files
    /\ stats.files_skipped = NumFiles
    /\ touched = {}
    /\ Len(collection) > 0

\* C2 as stated: after a run, advancing exactly one file's mtime makes the
\* next run yield files_processed = 1 with every other candidate skipped
C2_Original ==
    [][(CallReturnsNormally /\ CtxPrev \in {"clean", "failed"} /\ Cardinality(CtxTouched) = 1)
        => (stats'.files_processed = 1 /\ stats'.files_skipped = Cardinality(tree) - 1)]_vars

\* C2 (amended): after a run that ran to completion with files_failed = 0,
\* advancing exactly one file's mtime makes the next run select exactly that
\* file and skip every other candidate; when the run completes,
\* files_processed = 1 if the file's worker returned no error (the file is
\* then marked with its new mtime), else files_processed = 0 and files_failed = 1
C2_SingleFileDelta ==
    [][/\ (pc = "idle" /\ mtime' = mtime /\ PrevSummary = "clean" /\ Cardinality(touched) = 1)
          => (outcome' = "running" /\ SeqRange(todo') = touched /\ Len(todo') = 1
              /\ stats'.files_skipped = Cardinality(tree) - 1)
       /\ (pc = "loop" /\ pc' = "idle" /\ outcome' = "complete"
              /\ prev = "clean" /\ Cardinality(run_touched) = 1)
          => /\ stats'.files_skipped = Cardinality(tree) - 1
             /\ stats'.files_processed + stats'.files_failed = 1
             /\ stats'.files_failed = 0
                  => \A f \in run_touched :
                        f \in DOMAIN state_db' /\ state_db'[f] = mtime'[f]]_vars

\* a run after one touch has processed one file and skipped the other ones
C2_Witness ==
    /\ outcome = "complete"
    /\ tree = Files
    /\ clock > 1
    /\ stats.files_processed = 1
    /\ stats.files_failed = 0
    /\ stats.files_skipped = NumFiles - 1

\* C3: consuming a worker result that carries an error appends (path,
\* message) to errors, increments files_failed, leaves the tracker, the batch
\* and the collection unchanged, and the loop goes on; the next run selects
\* every file listed in errors again
C3_PerFileError ==
    [][/\ \A r \in results :
            (r.error # None /\ results' = results \ {r} /\ outcome' = "running")
            => /\ pc' = "loop"
               /\ todo' = todo
               /\ stats'.files_failed = stats.files_failed + 1
               /\ stats'.errors = Append(stats.errors, <<r.file, r.error>>)
               /\ stats'.files_processed = stats.files_processed
               /\ stats'.chunks_created = stats.chunks_created
               /\ state_db' = state_db
               /\ batch' = batch
               /\ collection' = collection
       /\ (pc = "idle" /\ mtime' = mtime)
            => \A i \in 1..Len(stats.errors) :
                  pc' = "loop" /\ stats.errors[i][1] \in SeqRange(todo')]_vars

\* a run retries a file that failed in the run before, and it fails again
C3_Witness ==
    /\ pc = "loop"
    /\ prev = "failed"
    /\ stats.files_failed > 0
    /\ todo # <<>>

\* C4: an interrupt during the loop ends the call at once: no further result
\* is consumed, the pool is terminated, the stats returned are the ones
\* accumulated so far; no step ever removes a record from the collection
C4_Interrupt ==
    [][/\ (pc = "loop" /\ outcome' = "interrupted")
            => /\ pc' = "idle"
               /\ stats' = stats
               /\ collection' = collection
               /\ state_db' = state_db
               /\ results' = {} /\ todo' = <<>>
               /\ use_parallel => pool' = "terminated"
       /\ (outcome = "interrupted" /\ outcome' = "interrupted")
            => (stats' = stats /\ collection' = collection)
       /\ IsPrefix(collection, collection')]_vars

\* a pool run was interrupted after a batch had been flushed, with work outstanding
C4_Witness ==
    /\ outcome = "interrupted"
    /\ pool = "terminated"
    /\ Len(collection) > 0
    /\ stats.files_processed + stats.files_failed < Cardinality(tree) - stats.files_skipped

(***************************************************************************)
(* The staleness filter under edits that keep the modification time        *)
(***************************************************************************)
\* the content of a file that the tracker holds as up to date changes while
\* its st_mtime stays as it is (a restored backup, clock skew): extraction
\* would now yield n chunks
Edit(f, n) ==
    /\ pc = "idle"
    /\ f \in tree
    /\ f \in DOMAIN state_db
    /\ state_db[f] = mtime[f]
    /\ n # nchunks[f]
    /\ nchunks' = [nchunks EXCEPT ![f] = n]
    /\ UNCHANGED <<tree, clock, mtime, state_db, ragVars, runVars, callerVars,
                   faultVars, nonIndexVars>>

\* a full tree whose files all have content
InitStale ==
    /\ Init
    /\ tree = Files
    /\ \A f \in Files : nchunks[f] > 0

NextStale ==
    \/ Next
    \/ \E f \in Files, n \in ChunkCounts : Edit(f, n)

SpecStale == InitStale /\ [][NextStale]_vars

\* the candidates the tracker has no row for, or whose mtime is newer than
\* the stored one
Stale == {f \in tree : f \notin DOMAIN state_db \/ mtime[f] > state_db[f]}
\* the records the collection holds for file f
RecordsOf(f) == {i \in 1..Len(collection) : collection[i].chunk.file = f}

MaxFaults == 2

\* a staleness test that skips the file when the lookup raises
should_process_db_FailClosed(f, db_raises) ==
    IF db_raises THEN FALSE ELSE should_process(f)

\* state_manager.py:45-67: should_process with its except clause: when the
\* lookup raises, the answer is True
should_process_db(f, db_raises) ==
    IF db_raises THEN TRUE ELSE should_process(f)

\* state_manager.py:71-85: mark_processed with its except clause: when the
\* upsert raises, the error is logged and the table stays as it is
mark_processed_db(db, f, db_raises) ==
    IF db_raises THEN db ELSE mark_processed(db, f)

\* rag.py:111-115: collection.add on a store keyed by id: a record whose id
\* the store already holds is not stored
collection_add(coll, records) ==
    coll \o SelectSeq(records, LAMBDA r : \A i \in 1..Len(coll) : coll[i].id # r.id)

\* a commit whose failure is swallowed
add_chunks_batch_store_Swallow(coll, counter, chunks, add_raises) ==
    [collection |-> IF add_raises THEN coll
                    ELSE collection_add(coll, NewRecords(counter, chunks)),
     chunk_counter |-> add_chunks_batch_counter(counter, chunks),
     raised |-> FALSE]

\* rag.py:98-115: add_chunks_batch when collection.add may raise: the ids
\* are drawn from the counter before the insert, nothing is stored and the
\* exception leaves add_chunks_batch
add_chunks_batch_store(coll, counter, chunks, add_raises) ==
    [collection |-> IF add_raises THEN coll
                    ELSE collection_add(coll, NewRecords(counter, chunks)),
     chunk_counter |-> add_chunks_batch_counter(counter, chunks),
     raised |-> add_raises]

\* indexer.py:127-188 with a tracker whose lookups raise for the files in
\* raising
IndexDirectoryF(bs, parallel, raising) ==
    /\ pc = "idle"
    /\ raising \subseteq tree
    /\ faults + Cardinality(raising) <= MaxFaults
    /\ faults' = faults + Cardinality(raising)
    /\ read_errors' = raising
    /\ write_errors' = {}
    /\ lost_before' = write_errors
    /\ LET all_files == SortedSeq(tree)
           files_to_process == SelectSeq(all_files,
                                         LAMBDA f : should_process_db(f, f \in raising))
           skipped == Len(all_files) - Len(files_to_process)
           st == [EmptyStats EXCEPT !.files_skipped = skipped]
           par == parallel /\ Len(files_to_process) > ParallelThreshold
       IN IF all_files = <<>>
          THEN /\ stats' = EmptyStats
               /\ Return("no_files")
               /\ pool' = "none"
          ELSE IF files_to_process = <<>>
          THEN /\ stats' = st
               /\ Return("up_to_date")
               /\ pool' = "none"
          ELSE /\ stats' = st
               /\ todo' = files_to_process
               /\ results' = {}
               /\ batch' = <<>>
               /\ batch_size' = bs
               /\ use_parallel' = par
               /\ pool' = IF par THEN "running" ELSE "none"
               /\ pc' = "loop"
               /\ outcome' = "running"
               /\ prev' = PrevSummary
               /\ run_touched' = touched
               /\ run_start' = [files |-> files_to_process, state_db |-> state_db,
                                count |-> Len(collection)]
               /\ touched' = {}
    /\ UNCHANGED <<envVars, state_db, ragVars, nonIndexVars>>

\* indexer.py:224-227: an exception leaves the loop: the finally clause
\* closes the pool, and the exception leaves index_directory
Abort ==
    /\ pool' = IF use_parallel THEN "closed" ELSE pool
    /\ Return("aborted")

\* indexer.py:191-216: one iteration of the loop, when the upsert of
\* mark_processed or the insert of add_chunks_batch may raise
ConsumeResultF(r, mark_raises, add_raises) ==
    /\ pc = "loop"
    /\ r \in results
    /\ IF r.error # None
       THEN /\ stats' = [stats EXCEPT !.files_failed = @ + 1,
                                      !.errors = Append(@, <<r.file, r.error>>)]
            /\ results' = results \ {r}
            /\ UNCHANGED <<state_db, batch, ragVars, pc, todo, batch_size,
                           use_parallel, pool, callerVars, faultVars>>
       ELSE LET b == batch \o r.chunks
                flush == Len(b) >= batch_size
                nfaults == (IF mark_raises THEN 1 ELSE 0)
                           + (IF flush /\ add_raises THEN 1 ELSE 0)
                c == add_chunks_batch_store(collection, chunk_counter, b, add_raises)
            IN /\ faults + nfaults <= MaxFaults
               /\ faults' = faults + nfaults
               /\ stats' = [stats EXCEPT !.files_processed = @ + 1,
                                         !.chunks_created = @ + Len(r.chunks)]
               /\ state_db' = mark_processed_db(state_db, r.file, mark_raises)
               /\ write_errors' = IF mark_raises THEN write_errors \cup {r.file}
                                  ELSE write_errors
               /\ UNCHANGED <<read_errors, lost_before>>
               /\ IF flush
                  THEN /\ collection' = c.collection
                       /\ chunk_counter' = c.chunk_counter
                       /\ IF c.raised
                          THEN Abort
                          ELSE /\ batch' = <<>>
                               /\ results' = results \ {r}
                               /\ UNCHANGED <<pc, todo, batch_size, use_parallel,
                                              pool, callerVars>>
                  ELSE /\ batch' = b
                       /\ results' = results \ {r}
                       /\ UNCHANGED <<ragVars, pc, todo, batch_size, use_parallel,
                                      pool, callerVars>>
    /\ UNCHANGED <<envVars, nonIndexVars>>

\* indexer.py:224-237: the iterator is exhausted: close the pool, flush the
\* rest; the last insert may raise
FinishF(add_raises) ==
    /\ pc = "loop"
    /\ todo = <<>>
    /\ results = {}
    /\ pool' = IF use_parallel THEN "closed" ELSE pool
    /\ IF batch # <<>>
       THEN LET c == add_chunks_batch_store(collection, chunk_counter, batch, add_raises)
            IN /\ faults + (IF add_raises THEN 1 ELSE 0) <= MaxFaults
               /\ faults' = faults + (IF add_raises THEN 1 ELSE 0)
               /\ collection' = c.collection
               /\ chunk_counter' = c.chunk_counter
               /\ Return(IF c.raised THEN "aborted" ELSE "complete")
       ELSE /\ UNCHANGED <<ragVars, faults>>
            /\ Return("complete")
    /\ UNCHANGED <<envVars, state_db, stats, read_errors, write_errors, lost_before,
                   nonIndexVars>>

\* calls over a tree that does not change between them, each running to its
\* end or to the exception that aborts it
NextTracker ==
    \/ \E bs \in BatchSizes, parallel \in BOOLEAN, raising \in SUBSET Files :
            IndexDirectoryF(bs, parallel, raising)
    \/ \E f \in Files, raises \in BOOLEAN : WorkerComplete(f, raises)
    \/ \E r \in results, mark_raises \in BOOLEAN, add_raises \in BOOLEAN :
            ConsumeResultF(r, mark_raises, add_raises)
    \/ \E add_raises \in BOOLEAN : FinishF(add_raises)

SpecTracker == InitStale /\ [][NextTracker]_vars

\* the step is a commit that failed: ids were drawn from the counter and
\* nothing was stored
CommitFailed == chunk_counter' > chunk_counter /\ collection' = collection

\* C16: when a batch commit fails, the call ends at once with the exception:
\* the commit is not retried, no further result is consumed, the outstanding
\* work is dropped and the pool closed; the batches flushed before stay in
\* the collection, then and until the next call
C16_CommitFailureAborts ==
    [][/\ CommitFailed
            => /\ pc = "loop"
               /\ pc' = "idle"
               /\ outcome' = "aborted"
               /\ todo' = <<>> /\ results' = {} /\ batch' = <<>>
               /\ use_parallel => pool' = "closed"
               /\ stats'.files_processed <= stats.files_processed + 1
       /\ (outcome = "aborted" /\ outcome' = "aborted")
            => (collection' = collection /\ stats' = stats /\ state_db' = state_db)
       /\ outcome' = "aborted" => CommitFailed
       /\ IsPrefix(collection, collection')]_vars

\* a pool run was aborted by a failed commit after an earlier batch had been
\* flushed, with a result still waiting to be consumed
C16_Witness ==
    /\ outcome = "aborted"
    /\ pool = "closed"
    /\ Len(collection) > 0
    /\ chunk_counter > Len(collection)
    /\ stats.files_processed + stats.files_failed < Cardinality(tree) - stats.files_skipped

\* the step starts a call
CallStarts == pc = "idle" /\ (pc' = "loop" \/ outcome' \in {"no_files", "up_to_date"})

\* what C17 says of a read failure and of a write failure during a call
C17_FailOpenFailSilent ==
    /\ CallStarts => (read_errors' \subseteq SeqRange(todo')
                      /\ (read_errors' # {} => pc' = "loop"))
    /\ \A f \in write_errors' \ write_errors :
            /\ pc = "loop"
            /\ state_db' = state_db
            /\ stats'.files_processed = stats.files_processed + 1
            /\ stats'.files_failed = stats.files_failed
            /\ stats'.errors = stats.errors
            /\ pc' = "loop" \/ CommitFailed

\* C17 as stated: a lookup that raises selects the file; an upsert that
\* raises is swallowed, the file is counted in files_processed and the run
\* goes on; the next run selects every such file again
C17_Original ==
    [][/\ C17_FailOpenFailSilent
       /\ CallStarts => write_errors \subseteq SeqRange(todo')]_vars

\* C17 (amended): as above, but the next run selects the file again when the
\* tracker has no row for it or a row older than its mtime, or when its
\* lookup raises again; a file that was selected only because its lookup had
\* raised, and whose row is current, is skipped
C17_TrackerFailures ==
    [][/\ C17_FailOpenFailSilent
       /\ CallStarts =>
            \A f \in write_errors :
                IF should_process(f) \/ f \in read_errors'
                THEN pc' = "loop" /\ f \in SeqRange(todo')
                ELSE f \notin SeqRange(todo') /\ stats'.files_skipped > 0]_vars

\* a run has selected again, without any lookup raising, a file that the run
\* before had processed and whose upsert had raised
C17_Witness ==
    /\ pc = "loop"
    /\ lost_before # {}
    /\ read_errors = {}
    /\ lost_before \subseteq SeqRange(todo)
    /\ stats.files_skipped > 0

(***************************************************************************)
(* What a run leaves in the tracker and in the store                       *)
(***************************************************************************)
\* the call has returned, or was left by an exception, after its loop started
Stopped == pc = "idle" /\ outcome \in {"complete", "interrupted", "aborted"}
\* the tracker records f as up to date
UpToDate(f) == f \in DOMAIN state_db /\ state_db[f] = mtime[f]
\* every chunk that extraction yields for f is in the collection
Committed(f) ==
    \A k \in 1..nchunks[f] :
        \E i \in 1..Len(collection) : collection[i].chunk = ChunksOf(f)[k]

\* C21 as stated: whenever index has stopped, by normal completion, by an
\* interrupt or by a failed commit, every file the tracker records as up to
\* date has all of its chunks in the collection
C21_MarkedFilesCommitted ==
    Stopped => \A f \in tree : UpToDate(f) => Committed(f)

\* the step appends to the collection one record per chunk of b, in order,
\* and nothing else
Appended(b) ==
    /\ Len(collection') = Len(collection) + Len(b)
    /\ IsPrefix(collection, collection')
    /\ \A i \in 1..Len(b) : collection'[Len(collection) + i].chunk = b[i]
\* chunks committed or waiting in the accumulator, less the chunks counted
Balance(coll, b, st) == Len(coll) + Len(b) - st.chunks_created

\* C22: a run starts with an empty accumulator; consuming a result without
\* error adds its chunks to the accumulator and to chunks_created, and when
\* the accumulator then holds at least batch_size chunks they are committed,
\* each once and in order, and the accumulator emptied; the end of the loop
\* commits the remainder; no other step of the run changes the collection or
\* the accumulator, so that on normal completion the chunks committed by the
\* run are exactly the chunks_created
C22_FlushDiscipline ==
    [][/\ (pc = "idle" /\ pc' = "loop")
            => (batch' = <<>> /\ stats'.chunks_created = 0 /\ collection' = collection)
       /\ \A r \in results :
            (pc = "loop" /\ outcome' = "running" /\ results' = results \ {r}
                /\ r.error = None)
            => LET b == batch \o r.chunks
               IN /\ stats'.chunks_created = stats.chunks_created + Len(r.chunks)
                  /\ IF Len(b) >= batch_size
                     THEN Appended(b) /\ batch' = <<>>
                     ELSE collection' = collection /\ batch' = b
       /\ (pc = "loop" /\ outcome' = "complete")
            => /\ todo = <<>> /\ results = {}
               /\ Appended(batch)
               /\ stats' = stats
       /\ (pc = "loop" /\ outcome' = "running")
            => /\ Len(batch') < batch_size
               /\ Balance(collection', batch', stats') = Balance(collection, batch, stats)
       /\ (pc = "loop" /\ outcome' = "complete")
            => Balance(collection', <<>>, stats') = Balance(collection, batch, stats)]_vars

\* the first run over a full tree has completed and every chunk it created
\* is in the collection
C22_Witness ==
    /\ outcome = "complete"
    /\ tree = Files
    /\ stats.files_processed = NumFiles
    /\ stats.chunks_created > 0
    /\ Len(collection) = stats.chunks_created

\* the files listed in errors
ErrorFiles == {stats.errors[i][1] : i \in 1..Len(stats.errors)}

\* C23: when index has returned after normal completion, files_processed +
\* files_skipped + files_failed is the number of candidate files, errors has
\* files_failed entries, one for each of as many distinct candidates
C23_StatsAccounting ==
    (pc = "idle" /\ outcome \in NormalOutcomes) =>
        /\ stats.files_processed + stats.files_skipped + stats.files_failed
                = Cardinality(tree)
        /\ Len(stats.errors) = stats.files_failed
        /\ Cardinality(ErrorFiles) = stats.files_failed
        /\ ErrorFiles \subseteq tree

\* a run has completed that skipped one file and failed on the other one
C23_Witness ==
    /\ pc = "idle"
    /\ outcome = "complete"
    /\ stats.files_skipped = 1
    /\ stats.files_failed = 1
    /\ Len(stats.errors) = 1

\* how many chunks extraction yields for the files of S together
RECURSIVE SumChunks(_)
SumChunks(S) ==
    IF S = {} THEN 0
    ELSE LET f == CHOOSE x \in S : TRUE IN nchunks[f] + SumChunks(S \ {f})

\* C24: when a run completes, its result is a function of the files it
\* selected and of which of them failed, whatever the order in which the
\* workers completed and the results were consumed: files_failed and
\* files_processed count the failed and the other selected files,
\* chunks_created is the number of chunks of the latter, the tracker holds
\* the rows the run found with the latter marked at their mtime, and the
\* records the run added hold each of their chunks exactly once and nothing
\* else
C24_OrderIndependence ==
    [][(pc = "loop" /\ outcome' = "complete") =>
        LET selected == SeqRange(run_start.files)
            failed == {stats'.errors[i][1] : i \in 1..Len(stats'.errors)}
            processed == selected \ failed
            added == SubSeq(collection', run_start.count + 1, Len(collection'))
        IN /\ failed \subseteq selected
           /\ stats'.files_failed = Cardinality(failed)
           /\ stats'.files_processed = Cardinality(processed)
           /\ stats'.chunks_created = SumChunks(processed)
           /\ state_db' = [f \in DOMAIN run_start.state_db \cup processed |->
                                IF f \in processed THEN mtime[f]
                                ELSE run_start.state_db[f]]
           /\ Len(added) = SumChunks(processed)
           /\ \A f \in processed :
                \A k \in 1..nchunks[f] :
                    Cardinality({i \in 1..Len(added) : added[i].chunk = ChunksOf(f)[k]}) = 1]_vars

\* a pool run has completed in which the result of the second file was
\* consumed before the one of the first file
C24_Witness ==
    /\ outcome = "complete"
    /\ pool = "closed"
    /\ stats.files_processed = NumFiles
    /\ Len(collection) = stats.chunks_created
    /\ Len(collection) > 0
    /\ collection[1].chunk.file = 2
    /\ \E i \in 2..Len(collection) : collection[i].chunk.file = 1

(***************************************************************************)
(* Files modified while a run is under way                                 *)
(***************************************************************************)
\* an edit of f after its worker has read it and before the loop has
\* consumed the result: the file's modification time advances
Modify(f) ==
    /\ pc = "loop"
    /\ f \in tree
    /\ \E r \in results : r.file = f
    /\ clock < MaxTime
    /\ clock' = clock + 1
    /\ mtime' = [mtime EXCEPT ![f] = clock + 1]
    /\ UNCHANGED <<tree, nchunks, state_db, ragVars, runVars, callerVars,
                   faultVars, nonIndexVars>>

NextRace ==
    \/ Next
    \/ \E f \in Files : Modify(f)

SpecRace == Init /\ [][NextRace]_vars

\* C25 as stated: the modification time that marking a file stores is never
\* newer than the one of the content its worker read, so that a file
\* modified between the read and the mark is still selected by the next run
C25_NoNewerMtimeStored ==
    [][\A r \in results :
            (pc = "loop" /\ outcome' = "running" /\ results' = results \ {r}
                /\ r.error = None)
            => /\ r.file \in DOMAIN state_db'
               /\ state_db'[r.file] <= r.read_mtime
               /\ r.read_mtime < mtime[r.file] => state_db'[r.file] < mtime'[r.file]]_vars

(***************************************************************************)
(* Re-indexing over a store that is not cleared                            *)
(***************************************************************************)
\* a state reset is tried while the store holds at most this many records
MaxStored == 2

\* cli.py:44-46 (--force): StateManager.clear() deletes every row of the
\* tracker; the store is left as it is
StateClear ==
    /\ pc = "idle"
    /\ state_db # <<>>
    /\ Len(collection) <= MaxStored
    /\ state_db' = <<>>
    /\ UNCHANGED <<envVars, ragVars, runVars, callerVars, faultVars, nonIndexVars>>

NextForce ==
    \/ Next
    \/ StateClear

SpecForce == InitStale /\ [][NextForce]_vars

\* C28: no step of a run removes or changes a record of the store; when a
\* run ends, normally or by an interrupt, the store holds the records it
\* held when the run started followed by one record for each chunk the run
\* committed, that is the chunks counted in chunks_created less the ones
\* still in the accumulator; the records of an earlier indexing of a file
\* stay next to the new ones
C28_AppendOnly ==
    [][/\ IsPrefix(collection, collection')
       /\ (pc = "loop" /\ pc' = "idle")
            => /\ Len(collection') = run_start.count + stats'.chunks_created
                        - (IF outcome' = "complete" THEN 0 ELSE Len(batch))
               /\ \A f \in tree :
                    LET old == {i \in 1..run_start.count : collection'[i].chunk.file = f}
                        new == {i \in (run_start.count + 1)..Len(collection') :
                                    collection'[i].chunk.file = f}
                    IN /\ \A i \in old : collection'[i] = collection[i]
                       /\ Cardinality(new) \in {0, nchunks[f]}
                       /\ Cardinality(new) > 0 => f \in SeqRange(run_start.files)]_vars

\* after a state reset that left the store as it was, a run has indexed
\* again a file that was not modified: the store holds its chunks twice
C28_Witness ==
    /\ outcome = "complete"
    /\ clock = 1
    /\ \E f \in tree :
            /\ nchunks[f] > 0
            /\ Cardinality(RecordsOf(f)) = 2 * nchunks[f]

(***************************************************************************)
(* Hybrid retrieval (rag.py)                                               *)
(***************************************************************************)
\* most documents the collection holds
MaxDocs == 3
\* the n_results arguments tried
TopKs == {1, 2}
\* raw BM25 scores: 0 for a document sharing no token with the query
Scores == {0, 1, 2}
\* rag.py:227: self._rrf_fusion(vector_results, keyword_results, k=60)
RRF_K == 60
\* rag.py:218
Placeholder == "Content not stored in RAM"
\* the chunks offered to add_chunks_batch: content and the metadata of to_dict()
SearchChunks ==
    { [content |-> "def f(): pass", language |-> "python", type |-> "function"],
      [content |-> "class C {};", language |-> "cpp", type |-> "class"] }
\* the language and file_type arguments tried
LanguageArgs == {None, "python"}
FileTypeArgs == {None, "class"}

\* the indexer is idle on an empty tree
IndexerQuiet ==
    /\ tree = {}
    /\ clock = 1
    /\ mtime = [f \in Files |-> 1]
    /\ nchunks = [f \in Files |-> 0]
    /\ state_db = <<>>
    /\ pc = "idle"
    /\ stats = EmptyStats
    /\ todo = <<>>
    /\ results = {}
    /\ batch = <<>>
    /\ batch_size = 1
    /\ use_parallel = FALSE
    /\ pool = "none"
    /\ outcome = "none"
    /\ prev = "none"
    /\ touched = {}
    /\ run_touched = {}
    /\ run_start = NoRun
    /\ read_errors = {}
    /\ write_errors = {}
    /\ lost_before = {}
    /\ faults = 0

Min(a, b) == IF a <= b THEN a ELSE b
Take(s, n) == SubSeq(s, 1, Min(n, Len(s)))
InjectiveSeqs(S, n) ==
    {s \in [1..n -> S] : \A i, j \in 1..n : i # j => s[i] # s[j]}
\* the orders of the indices 1..n
IndexOrders == [n \in 0..MaxDocs |-> InjectiveSeqs(1..n, n)]
Ids(rs) == {rs[i].id : i \in 1..Len(rs)}

\* exact rationals for the fused scores
Zero == [num |-> 0, den |-> 1]
FAdd(a, b) == [num |-> a.num * b.den + b.num * a.den, den |-> a.den * b.den]
FLess(a, b) == a.num * b.den < b.num * a.den
FEq(a, b) == a.num * b.den = b.num * a.den

\* chunk.to_dict(), as far as the filters read it
MetadataOf(rec) == [language |-> rec.chunk.language, type |-> rec.chunk.type]

\* rag.py:177-186 (where clause) and rag.py:211-214 (manual filter)
MatchesFilter(metadata, language, file_type) ==
    /\ language = None \/ metadata.language = language
    /\ file_type = None \/ metadata.type = file_type

\* _format_query_results: one record per hit
VectorHit(rec) ==
    [id |-> rec.id, content |-> rec.chunk.content,
     metadata |-> MetadataOf(rec), rrf_score |-> Zero]

\* collection.query(n_results = n * 2, where = ...): the nearest stored
\* documents passing the filter, in an order the embedding decides
VectorSearch(coll, n, language, file_type) ==
    LET matching == {i \in 1..Len(coll) :
                        MatchesFilter(MetadataOf(coll[i]), language, file_type)}
        len == Min(n * 2, Cardinality(matching))
    IN {[j \in 1..len |-> VectorHit(coll[s[j]])] : s \in InjectiveSeqs(matching, len)}

\* np.argsort(doc_scores)[::-1]: the indices by descending score, equal
\* scores in an order the sort decides
Argsorts(doc_scores) ==
    {p \in IndexOrders[Len(doc_scores)] :
        \A i \in 1..(Len(p) - 1) : doc_scores[p[i]] >= doc_scores[p[i + 1]]}

KeywordHit(idx) ==
    [id |-> bm25_ids[idx], content |-> Placeholder,
     metadata |-> bm25_metadatas[idx], rrf_score |-> Zero]

\* rag.py:204-222: cut to the top n * 2 indices, then keep the ones with a
\* positive score that pass the filters
KeywordSearch(doc_scores, order, n, language, file_type) ==
    LET top_n_indices == Take(order, n * 2)
        kept == SelectSeq(top_n_indices,
                    LAMBDA idx : /\ doc_scores[idx] > 0
                                 /\ MatchesFilter(bm25_metadatas[idx], language, file_type))
    IN [j \in 1..Len(kept) |-> KeywordHit(kept[j])]

\* position of id in a ranked list, 0 if absent
RECURSIVE PositionOf(_, _, _)
PositionOf(rs, id, i) ==
    IF i > Len(rs) THEN 0
    ELSE IF rs[i].id = id THEN i
    ELSE PositionOf(rs, id, i + 1)

\* a misreading of the formula: 1 / (k + rank) for the 0-based rank
RankScore_NoPlusOne(k, rank) == [num |-> 1, den |-> k + rank]

\* rag.py:258, 262: 1 / (k + rank + 1) for the 0-based rank
RankScore(k, rank) == [num |-> 1, den |-> k + rank + 1]

\* the keys of scores in insertion order: vector ids, then new keyword ids
ScoreKeys(v, kw) ==
    [i \in 1..Len(v) |-> v[i].id]
        \o SelectSeq([i \in 1..Len(kw) |-> kw[i].id], LAMBDA id : id \notin Ids(v))

\* rag.py:254-262: the items of the scores dict in insertion order, each
\* score summed over the vector and then the keyword list
FusedScores(v, kw, k) ==
    LET keys == ScoreKeys(v, kw)
        score(id) ==
            LET pv == PositionOf(v, id, 1)
                pk == PositionOf(kw, id, 1)
                sv == IF pv = 0 THEN Zero ELSE FAdd(Zero, RankScore(k, pv - 1))
            IN IF pk = 0 THEN sv ELSE FAdd(sv, RankScore(k, pk - 1))
    IN SelectSeq([i \in 1..Len(keys) |-> [id |-> keys[i], score |-> score(keys[i])]],
                 LAMBDA item : TRUE)

\* a sort that returns the items as they are
RECURSIVE SortedDesc_Unsorted(_)
SortedDesc_Unsorted(items) == items

\* sorted(scores.keys(), key = lambda x: scores[x], reverse = True): stable,
\* so keys of equal score keep their order
RECURSIVE SortedDesc(_)
SortedDesc(items) ==
    IF items = <<>> THEN <<>>
    ELSE LET n == Len(items)
             x == items[n]
             rest == SortedDesc(SubSeq(items, 1, n - 1))
         IN \* x goes after every item whose score is not smaller
            SelectSeq(rest, LAMBDA y : ~FLess(y.score, x.score))
                \o <<x>> \o SelectSeq(rest, LAMBDA y : FLess(y.score, x.score))

\* rag.py:249-280
_rrf_fusion(v, kw, k) ==
    LET \* all_results_map: a keyword hit replaces the vector hit of the same id
        result(id) == IF id \in Ids(kw) THEN kw[PositionOf(kw, id, 1)]
                      ELSE v[PositionOf(v, id, 1)]
        combined(sorted_ids) ==
            [i \in 1..Len(sorted_ids) |->
                [result(sorted_ids[i].id) EXCEPT !.rrf_score = sorted_ids[i].score]]
    IN combined(SortedDesc(FusedScores(v, kw, k)))

\* a retrieve_context that returns the placeholders as they are
FetchContent_Skip(final, coll) == final

\* rag.py:236-245: fetch content and metadata of the placeholder results
FetchContent(final, coll) ==
    LET ids_to_fetch == {final[i].id : i \in {j \in 1..Len(final) : final[j].content = Placeholder}}
        fetched == {i \in 1..Len(coll) : coll[i].id \in ids_to_fetch}
        stored(id) == coll[CHOOSE i \in fetched : coll[i].id = id]
    IN [i \in 1..Len(final) |->
            IF \E j \in fetched : coll[j].id = final[i].id
            THEN [final[i] EXCEPT !.content = stored(final[i].id).chunk.content,
                                  !.metadata = MetadataOf(stored(final[i].id))]
            ELSE final[i]]

\* rag.py:237: the results whose content is still the placeholder
ids_to_fetch(final) ==
    {final[i].id : i \in {j \in 1..Len(final) : final[j].content = Placeholder}}

\* rag.py:55-59: the lexical index of a new instance
EmptyIndex == [bm25 |-> None, ids |-> <<>>, metadatas |-> <<>>, corpus |-> <<>>]

\* ChromeRAGSystem._build_keyword_index: a failure of collection.get is
\* caught, and it or an empty store leaves the index as it is
_build_keyword_index(index, coll, get_ok) ==
    IF ~get_ok \/ coll = <<>> THEN index
    ELSE [bm25 |-> "BM25Okapi",
          ids |-> [i \in 1..Len(coll) |-> coll[i].id],
          metadatas |-> [i \in 1..Len(coll) |-> MetadataOf(coll[i])],
          corpus |-> [i \in 1..Len(coll) |-> coll[i].id]]

\* a commit that rebuilds the lexical index over the store
add_chunks_batch_index_Rebuild(index, coll) == _build_keyword_index(index, coll, TRUE)

\* rag.py:117-121: the rebuild after the insert is commented out
add_chunks_batch_index(index, coll) == index

\* ChromeRAGSystem.add_chunks_batch; the lexical index is not rebuilt
AddChunksBatch(chunks) ==
    /\ spc = "ready"
    /\ chunks # <<>>
    /\ Len(collection) + Len(chunks) <= MaxDocs
    /\ collection' = add_chunks_batch_collection(collection, chunk_counter, chunks)
    /\ chunk_counter' = add_chunks_batch_counter(chunk_counter, chunks)
    /\ LET index == add_chunks_batch_index(
                        [bm25 |-> bm25, ids |-> bm25_ids, metadatas |-> bm25_metadatas,
                         corpus |-> bm25_corpus],
                        collection')
       IN /\ bm25' = index.bm25
          /\ bm25_ids' = index.ids
          /\ bm25_metadatas' = index.metadatas
          /\ bm25_corpus' = index.corpus
    /\ UNCHANGED <<nonSearchVars, spc, query, vector_results, keyword_results,
                   combined_results, final_results>>

\* ChromeRAGSystem.__init__ over the persisted collection, and its
\* _build_keyword_index
Construct(get_ok) ==
    /\ spc = "ready"
    /\ chunk_counter' = Len(collection)
    /\ LET index == _build_keyword_index(EmptyIndex, collection, get_ok)
       IN /\ bm25' = index.bm25
          /\ bm25_ids' = index.ids
          /\ bm25_metadatas' = index.metadatas
          /\ bm25_corpus' = index.corpus
    /\ UNCHANGED <<nonSearchVars, collection, spc, query, vector_results,
                   keyword_results, combined_results, final_results>>

\* the caller rebuilds the lexical index of the running instance
\* (tests/test_hybrid_search.py:41: rag._build_keyword_index())
BuildKeywordIndex(get_ok) ==
    /\ spc = "ready"
    /\ LET index == _build_keyword_index(
                        [bm25 |-> bm25, ids |-> bm25_ids, metadatas |-> bm25_metadatas,
                         corpus |-> bm25_corpus],
                        collection, get_ok)
       IN /\ bm25' = index.bm25
          /\ bm25_ids' = index.ids
          /\ bm25_metadatas' = index.metadatas
          /\ bm25_corpus' = index.corpus
    /\ UNCHANGED <<nonSearchVars, ragVars, spc, query, vector_results,
                   keyword_results, combined_results, final_results>>

\* a clear that leaves the lexical index as it is
ClearCollection_KeepIndex ==
    /\ spc = "ready"
    /\ collection' = <<>>
    /\ chunk_counter' = 0
    /\ UNCHANGED <<nonSearchVars, bm25, bm25_ids, bm25_metadatas, bm25_corpus, spc, query,
                   vector_results, keyword_results, combined_results, final_results>>

\* ChromeRAGSystem.clear_collection
ClearCollection ==
    /\ spc = "ready"
    /\ collection' = <<>>
    /\ chunk_counter' = 0
    /\ bm25' = None
    /\ bm25_corpus' = <<>>
    /\ UNCHANGED <<nonSearchVars, bm25_ids, bm25_metadatas, spc, query, vector_results,
                   keyword_results, combined_results, final_results>>

\* ChromeRAGSystem.retrieve_context
RetrieveContext(n, language, file_type, vector_ok, keyword_ok) ==
    /\ spc = "ready"
    /\ LET \* rag.py:189-197: a failed vector search leaves the list empty
           vector_outcomes == IF vector_ok
                              THEN VectorSearch(collection, n, language, file_type)
                              ELSE {<<>>}
           \* rag.py:201-224: no index, or a failed keyword search, likewise
           score_outcomes == IF bm25 # None /\ keyword_ok
                             THEN [1..Len(bm25_ids) -> Scores]
                             ELSE {<<>>}
       IN \E doc_scores \in score_outcomes :
            \E order \in Argsorts(doc_scores) :
              \E kw \in {KeywordSearch(doc_scores, order, n, language, file_type)} :
                \E v \in vector_outcomes :
                 \E combined \in {_rrf_fusion(v, kw, RRF_K)} :
                  \E get_ok \in BOOLEAN :
                   LET final == Take(combined, n)
                       \* rag.py:238-239: collection.get is called outside any
                       \* try block, and only when there is an id to fetch
                       get_raises == ids_to_fetch(final) # {} /\ ~get_ok
                   IN /\ query' = [n_results |-> n, language |-> language,
                                   file_type |-> file_type, doc_scores |-> doc_scores,
                                   vector_ok |-> vector_ok,
                                   keyword_ok |-> (bm25 = None \/ keyword_ok)]
                      \* the lists are locals of the call: an exception
                      \* that leaves it takes them along
                      /\ vector_results' = IF get_raises THEN <<>> ELSE v
                      /\ keyword_results' = IF get_raises THEN <<>> ELSE kw
                      /\ combined_results' = IF get_raises THEN <<>> ELSE combined
                      /\ final_results' = IF get_raises THEN <<>>
                                          ELSE FetchContent(final, collection)
                      /\ spc' = IF get_raises THEN "raised" ELSE "answered"
    /\ UNCHANGED <<nonSearchVars, ragVars, bm25, bm25_ids, bm25_metadatas, bm25_corpus>>

\* the caller takes the results, or sees the exception; the instance is
\* ready for the next call
TakeResults ==
    /\ spc \in {"answered", "raised"}
    /\ spc' = "ready"
    /\ query' = NoQuery
    /\ vector_results' = <<>>
    /\ keyword_results' = <<>>
    /\ combined_results' = <<>>
    /\ final_results' = <<>>
    /\ UNCHANGED <<nonSearchVars, ragVars, bm25, bm25_ids, bm25_metadatas, bm25_corpus>>

InitSearch ==
    /\ IndexerQuiet
    /\ collection = <<>>
    /\ chunk_counter = 0
    /\ SearchQuiet
    /\ ExtractQuiet

NextSearch ==
    \/ /\ spc = "ready"
       /\ \E chunks \in UNION {[1..m -> SearchChunks] : m \in 1..2} : AddChunksBatch(chunks)
    \/ /\ spc = "ready"
       /\ \E get_ok \in BOOLEAN : Construct(get_ok)
    \/ /\ spc = "ready"
       /\ \E get_ok \in BOOLEAN : BuildKeywordIndex(get_ok)
    \/ ClearCollection
    \/ /\ spc = "ready"
       /\ \E n \in TopKs, language \in LanguageArgs, file_type \in FileTypeArgs,
             vector_ok \in BOOLEAN, keyword_ok \in BOOLEAN :
               RetrieveContext(n, language, file_type, vector_ok, keyword_ok)
    \/ TakeResults

SpecSearch == InitSearch /\ [][NextSearch]_vars

(***************************************************************************)
(* Properties of hybrid retrieval                                          *)
(***************************************************************************)
NonIncreasing(rs) ==
    \A i, j \in 1..Len(rs) : i < j => ~FLess(rs[i].rrf_score, rs[j].rrf_score)
DistinctIds(rs) ==
    \A i, j \in 1..Len(rs) : i # j => rs[i].id # rs[j].id
\* 1 / (60 + rank + 1) if the list holds id at the 0-based rank, else 0
Contribution(rs, id) ==
    IF PositionOf(rs, id, 1) = 0 THEN Zero
    ELSE [num |-> 1, den |-> 60 + (PositionOf(rs, id, 1) - 1) + 1]
ExpectedScore(id) ==
    FAdd(Contribution(vector_results, id), Contribution(keyword_results, id))
FirstInOneListOnly(id) ==
    \/ PositionOf(vector_results, id, 1) = 1 /\ PositionOf(keyword_results, id, 1) = 0
    \/ PositionOf(vector_results, id, 1) = 0 /\ PositionOf(keyword_results, id, 1) = 1

\* C7: the fused score of every ranked document is the sum, over the lists
\* that contain it, of 1 / (60 + rank + 1) with its 0-based rank in the list;
\* a document first in exactly one list and absent from the other scores 1/61
C7_FusedScore ==
    spc = "answered" =>
        /\ \A i \in 1..Len(combined_results) :
            LET r == combined_results[i]
            IN /\ FEq(r.rrf_score, ExpectedScore(r.id))
               /\ FirstInOneListOnly(r.id) => r.rrf_score.num * 61 = r.rrf_score.den
        /\ \A i \in 1..Len(final_results) :
            FEq(final_results[i].rrf_score, ExpectedScore(final_results[i].id))

\* a query ranked a document found by the lexical list alone, at its head,
\* together with a document found by both lists
C7_Witness ==
    /\ spc = "answered"
    /\ \E i \in 1..Len(combined_results) :
        /\ PositionOf(keyword_results, combined_results[i].id, 1) = 1
        /\ PositionOf(vector_results, combined_results[i].id, 1) = 0
        /\ combined_results[i].rrf_score = [num |-> 1, den |-> 61]
    /\ Ids(vector_results) \cap Ids(keyword_results) # {}

\* C8: a search returns at most top_k results, in non-increasing order of
\* fused score and without a repeated id, and they are the first top_k
\* entries of the full fused ranking of the documents of both lists
C8_TopKOfFusedRanking ==
    spc = "answered" =>
        LET n == query.n_results
            all == Ids(vector_results) \cup Ids(keyword_results)
        IN /\ Len(final_results) <= n
           /\ NonIncreasing(final_results)
           /\ DistinctIds(final_results)
           /\ Ids(combined_results) = all
           /\ Len(combined_results) = Cardinality(all)
           /\ NonIncreasing(combined_results)
           /\ Len(final_results) = Min(n, Cardinality(all))
           /\ \A i \in 1..Len(final_results) :
                /\ final_results[i].id = combined_results[i].id
                /\ final_results[i].rrf_score = combined_results[i].rrf_score
           /\ \A id \in all \ Ids(final_results) :
                \A i \in 1..Len(final_results) :
                    ~FLess(ExpectedScore(final_results[i].id), ExpectedScore(id))

\* a query for two results cut a longer fused ranking whose scores differ
C8_Witness ==
    /\ spc = "answered"
    /\ query.n_results = 2
    /\ Len(combined_results) > 2
    /\ Len(final_results) = 2
    /\ FLess(final_results[2].rrf_score, final_results[1].rrf_score)
    /\ PositionOf(vector_results, final_results[1].id, 1) > 1

\* C9 as stated: under a language or chunk-type filter the lexical list is
\* the top 2 * top_k by raw score among the indexed documents that pass the
\* filter and score above 0
C9_FilterBeforeCut ==
    (/\ spc = "answered"
     /\ bm25 # None
     /\ query.keyword_ok
     /\ query.language # None \/ query.file_type # None) =>
        LET eligible == {idx \in 1..Len(bm25_ids) :
                            /\ query.doc_scores[idx] > 0
                            /\ MatchesFilter(bm25_metadatas[idx], query.language,
                                             query.file_type)}
            listed == {idx \in eligible : bm25_ids[idx] \in Ids(keyword_results)}
        IN /\ Len(keyword_results) = Min(2 * query.n_results, Cardinality(eligible))
           /\ Cardinality(listed) = Len(keyword_results)
           /\ \A a \in listed, b \in eligible \ listed :
                query.doc_scores[a] >= query.doc_scores[b]

\* C10: every returned result carries the content and the metadata stored
\* for its id, never the placeholder of the lexical index
C10_StoredContent ==
    spc = "answered" =>
        \A i \in 1..Len(final_results) :
            /\ final_results[i].content # Placeholder
            /\ \E j \in 1..Len(collection) :
                /\ collection[j].id = final_results[i].id
                /\ final_results[i].content = collection[j].chunk.content
                /\ final_results[i].metadata = MetadataOf(collection[j])

\* a query returned a document that both lists found, whose record is the
\* lexical hit, and one that only the dense list found, while the collection
\* holds a document the index lacks
C10_Witness ==
    /\ spc = "answered"
    /\ Len(bm25_ids) < Len(collection)
    /\ \E i \in 1..Len(final_results) :
        final_results[i].id \in Ids(keyword_results) \cap Ids(vector_results)
    /\ \E i \in 1..Len(final_results) :
        final_results[i].id \in Ids(vector_results) \ Ids(keyword_results)

\* C11 as stated: a search in which exactly one of the dense query and the
\* lexical scoring raised does not fail, and returns the first top_k of the
\* ranking fused from the list of the mode that succeeded
C11_SingleModeFailure ==
    (/\ spc \in {"answered", "raised"}
     /\ query.vector_ok # query.keyword_ok) =>
        /\ spc = "answered"
        /\ vector_results = <<>> \/ keyword_results = <<>>
        /\ LET ranking == _rrf_fusion(vector_results, keyword_results, RRF_K)
           IN /\ Len(final_results) = Min(query.n_results, Len(ranking))
              /\ \A i \in 1..Len(final_results) :
                    /\ final_results[i].id = ranking[i].id
                    /\ final_results[i].rrf_score = ranking[i].rrf_score

\* ---------------------------------------------------------------------
\* A rebuild of the lexical index that fails partway
\* ---------------------------------------------------------------------

\* rag.py:62-83 step by step: the get at 68 raises, or returns nothing,
\* and the index is as it was; self.bm25_ids and self.bm25_metadatas are
\* assigned at 74-75; the tokenising at 78 or the BM25Okapi constructor at
\* 79 raises and the except at 81-83 only logs, so self.bm25 stays the
\* scorer it was; otherwise self.bm25 is assigned at 79
_build_keyword_index_steps(index, coll, get_ok, scorer_ok) ==
    IF ~get_ok \/ coll = <<>> THEN index
    ELSE IF ~scorer_ok
    THEN [index EXCEPT !.ids = [i \in 1..Len(coll) |-> coll[i].id],
                       !.metadatas = [i \in 1..Len(coll) |-> MetadataOf(coll[i])]]
    ELSE _build_keyword_index(index, coll, get_ok)

\* the caller rebuilds the lexical index of the running instance; the
\* rebuild may raise at any of its statements
BuildKeywordIndexP(get_ok, scorer_ok) ==
    /\ spc = "ready"
    /\ LET index == _build_keyword_index_steps(
                        [bm25 |-> bm25, ids |-> bm25_ids, metadatas |-> bm25_metadatas,
                         corpus |-> bm25_corpus],
                        collection, get_ok, scorer_ok)
       IN /\ bm25' = index.bm25
          /\ bm25_ids' = index.ids
          /\ bm25_metadatas' = index.metadatas
          /\ bm25_corpus' = index.corpus
    /\ UNCHANGED <<nonSearchVars, ragVars, spc, query, vector_results,
                   keyword_results, combined_results, final_results>>

\* commits, clears, new instances and rebuilds, between the searches of
\* one instance
NextRebuild ==
    \/ \E chunks \in UNION {[1..m -> SearchChunks] : m \in 1..2} : AddChunksBatch(chunks)
    \/ \E get_ok \in BOOLEAN : Construct(get_ok)
    \/ \E get_ok \in BOOLEAN, scorer_ok \in BOOLEAN : BuildKeywordIndexP(get_ok, scorer_ok)
    \/ ClearCollection

SpecRebuild == InitSearch /\ [][NextRebuild]_vars

\* C27: whenever a search can run the lexical mode (the instance is ready
\* and self.bm25 is set), the scorer, the id list and the metadata list
\* describe the same document sequence: the ids are those of the documents
\* the scorer was built over, in that order, with one metadata entry each
C27_AtomicSwap ==
    (spc = "ready" /\ bm25 # None) =>
        /\ bm25_corpus = bm25_ids
        /\ Len(bm25_metadatas) = Len(bm25_ids)

\* the documents the lexical mode can return: rag.py:201 skips the mode
\* when self.bm25 is None
LexicalDocs ==
    IF bm25 = None THEN {}
    ELSE {<<bm25_ids[i], bm25_metadatas[i]>> : i \in 1..Len(bm25_ids)}
\* the documents in the store
StoreDocs == {<<collection[i].id, MetadataOf(collection[i])>> : i \in 1..Len(collection)}

\* C26: after a construction or an explicit rebuild whose read of the store
\* succeeded, the documents the lexical mode can return are exactly the
\* documents in the store; a rebuild over an empty store changes nothing,
\* and whenever the store is empty the lexical mode can return nothing
C26_RebuildMatchesStore ==
    /\ [][(Construct(TRUE) \/ BuildKeywordIndex(TRUE)) => LexicalDocs' = StoreDocs']_vars
    /\ [](collection = <<>> => LexicalDocs = {})

\* the store was cleared after an index had been built over it: the id list
\* of that index is still there, and the scorer is gone
C26_Witness ==
    /\ spc = "ready"
    /\ collection = <<>>
    /\ bm25 = None
    /\ bm25_ids # <<>>

(***************************************************************************)
(* The ids of the stored records over commits, clears and restarts         *)
(***************************************************************************)
\* the largest value the id counter reaches
MaxIds == 4

\* ChromeRAGSystem.add_chunks_batch when collection.add may raise
AddChunksBatchF(chunks, add_raises) ==
    /\ spc = "ready"
    /\ chunks # <<>>
    /\ Len(collection) + Len(chunks) <= MaxDocs
    /\ chunk_counter + Len(chunks) <= MaxIds
    /\ LET c == add_chunks_batch_store(collection, chunk_counter, chunks, add_raises)
       IN /\ collection' = c.collection
          /\ chunk_counter' = c.chunk_counter
    /\ UNCHANGED <<nonSearchVars, searchVars>>

\* one coordinating process at a time: it commits batches, clears the
\* collection, or ends and a new one starts on the persisted collection
NextIds ==
    \/ \E chunks \in UNION {[1..m -> SearchChunks] : m \in 1..2}, add_raises \in BOOLEAN :
            AddChunksBatchF(chunks, add_raises)
    \/ \E get_ok \in BOOLEAN : Construct(get_ok)
    \/ ClearCollection

SpecIds == InitSearch /\ [][NextIds]_vars

\* C18 as stated: every id that a commit assigns differs from every id the
\* store holds, and the counter only grows between two clears, from the
\* store's record count at startup and from 0 after a clear
C18_FreshIds ==
    [][/\ \A id \in chunk_counter..(chunk_counter' - 1) :
            \A i \in 1..Len(collection) : collection[i].id # id
       /\ chunk_counter' < chunk_counter
            => chunk_counter' = Len(collection')]_vars

\* the number of stored documents the lexical index covers
Indexed == IF bm25 = None THEN 0 ELSE Len(bm25_ids)

\* C12: a batch commit leaves the lexical index as it was, the index covers
\* the documents stored when it was last built, and no search returns, in
\* its lexical list, a document committed after that build
C12_CommitKeepsLexicalIndex ==
    /\ [][Len(collection') > Len(collection)
            => UNCHANGED <<bm25, bm25_ids, bm25_metadatas>>]_vars
    /\ [](/\ Indexed <= Len(collection)
          /\ \A i \in 1..Indexed : bm25_ids[i] = collection[i].id
          /\ spc = "answered" =>
                \A j \in (Indexed + 1)..Len(collection) :
                    collection[j].id \notin Ids(keyword_results))

\* a search on an index built before the latest commit found, in its dense
\* list only, a document committed after the build, while the lexical list
\* found an older one
C12_Witness ==
    /\ spc = "answered"
    /\ bm25 # None
    /\ Len(bm25_ids) < Len(collection)
    /\ keyword_results # <<>>
    /\ \E j \in (Len(bm25_ids) + 1)..Len(collection) :
            collection[j].id \in Ids(vector_results)

(***************************************************************************)
(* Chunk extraction (chunkers/)                                            *)
(***************************************************************************)
\* longest source text tried
MaxLen == 3
\* the characters of the source texts
Alphabet == {"a", " ", "\n", "#", ":", "[", "]"}
\* the languages tried: one per architecture the cascade tells apart
Languages == {"markdown", "yaml", "json", "python"}
Texts == UNION {[1..n -> Alphabet] : n \in 0..MaxLen}
\* the letters of the texts: what [a-zA-Z] matches in them
Letters == {"a", "b", "c", "d", "e", "m", "n", "o", "p", "r", "t", "u", "x", "I", "S"}
\* longer texts: "# Intro\ntext\n## Setup\nmore", "a\nb\n\nc\nd\n", "a\nb\nc"
\* and "\n# a"
Scenarios ==
    {<<"#", " ", "I", "n", "t", "r", "o", "\n", "t", "e", "x", "t", "\n",
       "#", "#", " ", "S", "e", "t", "u", "p", "\n", "m", "o", "r", "e">>,
     <<"a", "\n", "b", "\n", "\n", "c", "\n", "d", "\n">>,
     <<"a", "\n", "b", "\n", "c">>,
     <<"\n", "#", " ", "a">>}

\* file_architectures.py: LANGUAGE_ARCHITECTURE.get(language, FUNCTION_BASED)
get_architecture(l) ==
    CASE l = "markdown" -> "heading_based"
      [] l = "yaml" -> "section_based"
      [] l = "json" -> "record_based"
      [] OTHER -> "function_based"

\* a chunk name: literal text, or a fixed word with a number
Name(kind, n, text) == [kind |-> kind, n |-> n, text |-> text]
\* CodeChunk(type, name, content, filepath, language, line_start, line_end)
CodeChunk(type, name, content, line_start, line_end) ==
    [type |-> type, name |-> name, content |-> content,
     line_start |-> line_start, line_end |-> line_end]

\* str.isspace on one character
IsSpace(c) == c \in {" ", "\n"}

RECURSIVE lstrip(_)
lstrip(t) == IF t # <<>> /\ IsSpace(t[1]) THEN lstrip(Tail(t)) ELSE t
RECURSIVE rstrip(_)
rstrip(t) ==
    IF t # <<>> /\ IsSpace(t[Len(t)]) THEN rstrip(SubSeq(t, 1, Len(t) - 1)) ELSE t
\* str.strip()
strip(t) == rstrip(lstrip(t))

RECURSIVE lstrip_chars(_, _)
lstrip_chars(t, cs) ==
    IF t # <<>> /\ t[1] \in cs THEN lstrip_chars(Tail(t), cs) ELSE t
RECURSIVE rstrip_chars(_, _)
rstrip_chars(t, cs) ==
    IF t # <<>> /\ t[Len(t)] \in cs
    THEN rstrip_chars(SubSeq(t, 1, Len(t) - 1), cs) ELSE t
\* str.strip(chars)
strip_chars(t, cs) == rstrip_chars(lstrip_chars(t, cs), cs)

\* str.count('\n')
count_newlines(t) == Cardinality({i \in 1..Len(t) : t[i] = "\n"})

\* str.split('\n')
RECURSIVE split_lines(_)
split_lines(t) ==
    IF \A i \in 1..Len(t) : t[i] # "\n" THEN <<t>>
    ELSE LET i == CHOOSE k \in 1..Len(t) :
                    t[k] = "\n" /\ \A j \in 1..(k - 1) : t[j] # "\n"
         IN <<SubSeq(t, 1, i - 1)>> \o split_lines(SubSeq(t, i + 1, Len(t)))

\* '\n'.join(lines)
RECURSIVE join_lines(_)
join_lines(ls) ==
    IF ls = <<>> THEN <<>>
    ELSE IF Len(ls) = 1 THEN ls[1]
    ELSE ls[1] \o <<"\n">> \o join_lines(Tail(ls))

\* how many characters at the start of t are in cs
RECURSIVE leading(_, _)
leading(t, cs) == IF t # <<>> /\ t[1] \in cs THEN 1 + leading(Tail(t), cs) ELSE 0

\* fallback_chunker.py:110: re.match(r'^(#{1,6})\s+(.+)$', line)
heading_match(line) ==
    LET k == leading(line, {"#"})
        rest == SubSeq(line, k + 1, Len(line))
    IN k \in 1..6 /\ Len(rest) >= 2 /\ IsSpace(rest[1])
\* group(2) of that match: what follows the white space, or its last
\* character when nothing follows
heading_group2(line) ==
    LET k == leading(line, {"#"})
        rest == SubSeq(line, k + 1, Len(line))
        w == leading(rest, {" ", "\n"})
    IN IF w < Len(rest) THEN SubSeq(rest, w + 1, Len(rest)) ELSE <<rest[Len(rest)]>>

\* fallback_chunker.py:99-146, the loop from line i on
RECURSIVE headings_loop(_, _, _, _, _, _)
headings_loop(lines, i, cs, current_section, current_heading, section_start) ==
    IF i > Len(lines)
    THEN IF current_section # <<>>
         THEN Append(cs, CodeChunk("section", current_heading,
                                   join_lines(current_section), section_start, Len(lines)))
         ELSE cs
    ELSE IF heading_match(lines[i])
    THEN headings_loop(lines, i + 1,
                       IF current_section # <<>>
                       THEN Append(cs, CodeChunk("section", current_heading,
                                                 join_lines(current_section),
                                                 section_start, i - 1))
                       ELSE cs,
                       <<lines[i]>>,
                       Name("text", 0, strip(heading_group2(lines[i]))), i)
    ELSE headings_loop(lines, i + 1, cs, Append(current_section, lines[i]),
                       current_heading, section_start)

\* a heading fallback that emits no chunk for the lines before the first heading
_extract_by_headings_NoIntro(t) ==
    SelectSeq(headings_loop(split_lines(t), 1, <<>>, <<>>, Name("Introduction", 0, <<>>), 1),
              LAMBDA c : c.name.kind # "Introduction")

\* FallbackChunker._extract_by_headings
_extract_by_headings(t) ==
    headings_loop(split_lines(t), 1, <<>>, <<>>, Name("Introduction", 0, <<>>), 1)

\* fallback_chunker.py:42: the last index of the match of \n\s*\n that starts
\* at index i, 0 when none starts there
blank_line_match(t, i) ==
    IF t[i] # "\n" THEN 0
    ELSE LET run == leading(SubSeq(t, i + 1, Len(t)), {" ", "\n"})
             ends == {j \in (i + 1)..(i + run) : t[j] = "\n"}
         IN IF ends = {} THEN 0 ELSE CHOOSE j \in ends : \A e \in ends : e <= j

\* re.split(r'\n\s*\n', code), scanning from index i with the piece that
\* starts at index start
RECURSIVE re_split(_, _, _)
re_split(t, i, start) ==
    IF i > Len(t) THEN <<SubSeq(t, start, Len(t))>>
    ELSE LET e == blank_line_match(t, i)
         IN IF e = 0 THEN re_split(t, i + 1, start)
            ELSE <<SubSeq(t, start, i - 1)>> \o re_split(t, e + 1, e + 1)

\* fallback_chunker.py:44-67, the loop from paragraph i on
RECURSIVE paragraphs_loop(_, _, _, _)
paragraphs_loop(paragraphs, i, cs, current_line) ==
    IF i > Len(paragraphs) THEN cs
    ELSE LET para == strip(paragraphs[i])
             line_count == count_newlines(para) + 1
         IN IF para = <<>>
            THEN paragraphs_loop(paragraphs, i + 1, cs, current_line)
            ELSE paragraphs_loop(paragraphs, i + 1,
                    Append(cs, CodeChunk("paragraph", Name("paragraph_", i, <<>>), para,
                                         current_line, current_line + line_count - 1)),
                    current_line + line_count + 1)

\* a paragraph fallback that emits nothing unless a blank line splits the text
_extract_by_paragraphs_NeedsBlank(t) ==
    IF Len(re_split(t, 1, 1)) = 1 THEN <<>>
    ELSE paragraphs_loop(re_split(t, 1, 1), 1, <<>>, 1)

\* FallbackChunker._extract_by_paragraphs
_extract_by_paragraphs(t) == paragraphs_loop(re_split(t, 1, 1), 1, <<>>, 1)

\* adaptive_chunker.py:107-109:
\* re.match(r'^(\[.+\]|[a-zA-Z_][\w\.]*:)\s*$', line.strip()) and not line.startswith(' ')
section_match(line) ==
    LET st == strip(line)
        n == Len(st)
    IN /\ line = <<>> \/ line[1] # " "
       /\ \/ n >= 3 /\ st[1] = "[" /\ st[n] = "]"
          \/ /\ n >= 2 /\ st[n] = ":"
             /\ st[1] \in Letters \cup {"_"}
             /\ \A j \in 2..(n - 1) : st[j] \in Letters \cup {"_", "."}

\* adaptive_chunker.py:94-143, the loop from line i on
RECURSIVE sections_loop(_, _, _, _, _, _)
sections_loop(lines, i, cs, current_section, current_name, section_start) ==
    IF i > Len(lines)
    THEN IF current_section # <<>>
         THEN Append(cs, CodeChunk("section", current_name,
                                   join_lines(current_section), section_start, Len(lines)))
         ELSE cs
    ELSE IF section_match(lines[i])
    THEN sections_loop(lines, i + 1,
                       IF current_section # <<>>
                       THEN Append(cs, CodeChunk("section", current_name,
                                                 join_lines(current_section),
                                                 section_start, i - 1))
                       ELSE cs,
                       <<lines[i]>>,
                       Name("text", 0, strip_chars(strip(lines[i]), {":", "[", "]"})), i)
    ELSE sections_loop(lines, i + 1, cs, Append(current_section, lines[i]),
                       current_name, section_start)

\* AdaptiveChunker._extract_config_sections
_extract_config_sections(t) ==
    sections_loop(split_lines(t), 1, <<>>, <<>>, Name("root", 0, <<>>), 1)

\* json.loads on a text of this alphabet: the only values are arrays, and
\* without a comma an array holds at most one element. The nesting depth of
\* the array, 0 when the text is not JSON
RECURSIVE json_loads(_)
json_loads(t) ==
    LET st == strip(t)
    IN IF Len(st) < 2 \/ st[1] # "[" \/ st[Len(st)] # "]" THEN 0
       ELSE LET inner == strip(SubSeq(st, 2, Len(st) - 1))
            IN IF inner = <<>> THEN 1
               ELSE IF json_loads(inner) = 0 THEN 0
               ELSE json_loads(inner) + 1

\* n spaces
spaces(n) == [i \in 1..n |-> " "]
\* json.dumps(value, indent=2) for the array of depth d at indent level
RECURSIVE json_dumps(_, _)
json_dumps(d, level) ==
    IF d = 1 THEN <<"[", "]">>
    ELSE <<"[", "\n">> \o spaces(2 * (level + 1)) \o json_dumps(d - 1, level + 1)
            \o <<"\n">> \o spaces(2 * level) \o <<"]">>

\* adaptive_chunker.py:171-187: one record per non-blank line after the header
csv_rows(lines) ==
    LET rows == SelectSeq([i \in 1..(Len(lines) - 1) |-> i],
                          LAMBDA i : strip(lines[i + 1]) # <<>>)
    IN [j \in 1..Len(rows) |->
            CodeChunk("record", Name("row_", rows[j], <<>>),
                      lines[1] \o <<"\n">> \o lines[rows[j] + 1],
                      rows[j] + 1, rows[j] + 1)]

\* AdaptiveChunker._extract_records
_extract_records(t) ==
    LET d == json_loads(t)
        lines == split_lines(t)
    IN IF d = 1 THEN <<>>
       ELSE IF d > 1
       THEN <<CodeChunk("record", Name("record_", 1, <<>>), json_dumps(d - 1, 0), 1, 1)>>
       ELSE IF Len(lines) > 1 THEN csv_rows(lines)
       ELSE <<>>

\* AdaptiveChunker._extract_by_architecture
_extract_by_architecture(l, t) ==
    CASE get_architecture(l) = "heading_based" -> _extract_by_headings(t)
      [] get_architecture(l) = "section_based" -> _extract_config_sections(t)
      [] get_architecture(l) = "record_based" -> _extract_records(t)
      [] OTHER -> _extract_by_paragraphs(t)

\* the query_scm arguments tried
QueryArgs == {None, "query"}
\* what the query may capture in a text: nothing, or one node that spans the
\* text, with or without a name child
Captures(t) ==
    {<<>>} \cup {<<[start_byte |-> 0, end_byte |-> Len(t), named |-> b]>> : b \in BOOLEAN}

\* a capture whose first line is numbered from 0, as start_point is
_process_capture_ZeroBased(t, capture) ==
    LET text == SubSeq(t, capture.start_byte + 1, capture.end_byte)
    IN CodeChunk("function",
                 IF capture.named THEN Name("text", 0, <<"a">>)
                 ELSE Name("anonymous", 0, <<>>),
                 text,
                 count_newlines(SubSeq(t, 1, capture.start_byte)),
                 count_newlines(SubSeq(t, 1, capture.end_byte)) + 1)

\* GenericTreeSitterChunker._process_capture
_process_capture(t, capture) ==
    LET text == SubSeq(t, capture.start_byte + 1, capture.end_byte)
    IN CodeChunk("function",
                 IF capture.named THEN Name("text", 0, <<"a">>)
                 ELSE Name("anonymous", 0, <<>>),
                 text,
                 count_newlines(SubSeq(t, 1, capture.start_byte)) + 1,
                 count_newlines(SubSeq(t, 1, capture.end_byte)) + 1)

\* BaseChunker._should_include_chunk and the defaults of its size arguments
min_size == 10
max_size == 10000
_should_include_chunk(chunk) ==
    IF Len(chunk.content) < min_size \/ Len(chunk.content) > max_size THEN FALSE
    ELSE IF chunk.name.kind \in {"unknown", "anonymous"} THEN FALSE
    ELSE TRUE

\* GenericTreeSitterChunker.extract_chunks: nothing for a blank text; an
\* exception of the parser or the query is caught and gives an empty list
ts_extract_chunks(t, parse_raises, captures) ==
    IF strip(t) = <<>> THEN [ran |-> TRUE, failed |-> FALSE, raised |-> FALSE, chunks |-> <<>>]
    ELSE IF parse_raises
    THEN [ran |-> TRUE, failed |-> TRUE, raised |-> FALSE, chunks |-> <<>>]
    ELSE [ran |-> TRUE, failed |-> FALSE, raised |-> FALSE,
          chunks |-> [i \in 1..Len(captures) |-> _process_capture(t, captures[i])]]

\* a constructor that lets the failure of the grammar-driven chunker escape
adaptive_init_NoCatch(q, ctor_raises) ==
    [raised |-> q # None /\ ctor_raises,
     ts_chunker |-> IF q # None /\ ~ctor_raises THEN "GenericTreeSitterChunker" ELSE None]

\* AdaptiveChunker.__init__: the grammar-driven chunker is created when a
\* query is given; its failure is caught and leaves ts_chunker None
adaptive_init(q, ctor_raises) ==
    [raised |-> FALSE,
     ts_chunker |-> IF q # None /\ ~ctor_raises THEN "GenericTreeSitterChunker" ELSE None]

\* a cascade that goes from the grammar-driven strategy to the paragraphs
extract_chunks_SkipArchitecture(l, t, ts) ==
    IF ts.ran /\ ~ts.raised /\ ts.chunks # <<>>
    THEN [raised |-> FALSE, chunks |-> ts.chunks]
    ELSE [raised |-> FALSE, chunks |-> _extract_by_paragraphs(t)]

\* AdaptiveChunker.extract_chunks, given what strategy 1 did
extract_chunks(l, t, ts) ==
    IF ts.ran /\ ~ts.raised /\ ts.chunks # <<>>
    THEN [raised |-> FALSE, chunks |-> ts.chunks]
    ELSE IF _extract_by_architecture(l, t) # <<>>
    THEN [raised |-> FALSE, chunks |-> _extract_by_architecture(l, t)]
    ELSE [raised |-> FALSE, chunks |-> _extract_by_paragraphs(t)]

\* indexer.py:62-65: AdaptiveChunker(language, query_scm)
ConstructChunker(l, q, ctor_raises) ==
    /\ xpc = "none"
    /\ LET r == adaptive_init(q, ctor_raises)
       IN /\ xpc' = IF r.raised THEN "raised" ELSE "ready"
          /\ ts_chunker' = r.ts_chunker
    /\ chunker_language' = l
    /\ query_scm' = q
    /\ UNCHANGED <<indexVars, ragVars, searchVars, source_code, ts_result, returned_chunks>>

\* indexer.py:84: chunker.extract_chunks(code, rel_path)
ExtractChunks(t, parse_raises, captures) ==
    /\ xpc = "ready"
    /\ LET ts == IF ts_chunker # None
                 THEN ts_extract_chunks(t, parse_raises, captures)
                 ELSE [ran |-> FALSE, failed |-> FALSE, raised |-> FALSE, chunks |-> <<>>]
           r == extract_chunks(chunker_language, t, ts)
       IN /\ ts_result' = [ran |-> ts.ran, failed |-> ts.failed, chunks |-> ts.chunks]
          /\ xpc' = IF r.raised THEN "raised" ELSE "returned"
          /\ returned_chunks' = r.chunks
    /\ source_code' = t
    /\ UNCHANGED <<indexVars, ragVars, searchVars, chunker_language, query_scm, ts_chunker>>

\* indexer.py:85: the worker returns and the chunker is dropped
ReleaseChunker ==
    /\ xpc = "returned"
    /\ xpc' = "none"
    /\ chunker_language' = None
    /\ query_scm' = None
    /\ ts_chunker' = None
    /\ source_code' = <<>>
    /\ ts_result' = NoTsResult
    /\ returned_chunks' = <<>>
    /\ UNCHANGED <<indexVars, ragVars, searchVars>>

InitExtract ==
    /\ IndexerQuiet
    /\ collection = <<>>
    /\ chunk_counter = 0
    /\ SearchQuiet
    /\ ExtractQuiet

NextExtract ==
    \/ \E l \in Languages, q \in QueryArgs, ctor_raises \in BOOLEAN :
            ConstructChunker(l, q, ctor_raises)
    \/ /\ xpc = "ready"
       /\ \E t \in Texts \cup Scenarios, parse_raises \in BOOLEAN :
            \E captures \in Captures(t) : ExtractChunks(t, parse_raises, captures)
    \/ ReleaseChunker

SpecExtract == InitExtract /\ [][NextExtract]_vars

(***************************************************************************)
(* Properties of chunk extraction                                          *)
(***************************************************************************)
\* the output of the architecture fallback for the text of the call
ArchitectureOutput == _extract_by_architecture(chunker_language, source_code)
\* the output of the generic paragraph fallback for the text of the call
ParagraphOutput == _extract_by_paragraphs(source_code)

\* C5: extract_chunks returns the output of the first strategy that yields a
\* chunk, in the order grammar-driven query, architecture fallback, paragraph
\* fallback; when a configured query matches nothing, the output is the
\* architecture fallback's, and the paragraph fallback's only if that is empty
C5_FirstStrategyWins ==
    xpc = "returned" =>
        /\ ts_result.chunks # <<>> => returned_chunks = ts_result.chunks
        /\ (ts_result.chunks = <<>> /\ ArchitectureOutput # <<>>)
                => returned_chunks = ArchitectureOutput
        /\ (ts_result.chunks = <<>> /\ ArchitectureOutput = <<>>)
                => returned_chunks = ParagraphOutput
        /\ (ts_chunker # None /\ ~ts_result.failed /\ ts_result.chunks = <<>>)
                => \/ returned_chunks = ArchitectureOutput
                   \/ ArchitectureOutput = <<>> /\ returned_chunks = ParagraphOutput

\* a configured query matched nothing on a text for which the architecture
\* fallback and the paragraph fallback differ, and the former was returned
C5_Witness ==
    /\ xpc = "returned"
    /\ ts_chunker # None
    /\ ts_result.ran /\ ~ts_result.failed
    /\ ts_result.chunks = <<>>
    /\ strip(source_code) # <<>>
    /\ ArchitectureOutput # <<>>
    /\ ArchitectureOutput # ParagraphOutput
    /\ returned_chunks = ArchitectureOutput

\* C6: no exception reaches the caller; when the grammar-driven chunker could
\* not be constructed or its parse failed, the strategy counts as having
\* produced nothing and the list returned is the architecture fallback's
\* output, or the paragraph fallback's if that is empty
C6_NeverRaises ==
    /\ xpc # "raised"
    /\ xpc = "returned" =>
        /\ DOMAIN returned_chunks = 1..Len(returned_chunks)
        /\ ((query_scm # None /\ ts_chunker = None) \/ ts_result.failed)
                => /\ ts_result.chunks = <<>>
                   /\ returned_chunks = IF ArchitectureOutput # <<>>
                                        THEN ArchitectureOutput ELSE ParagraphOutput

\* the grammar-driven chunker could not be constructed, the record fallback
\* found nothing, and the paragraphs were returned
C6_Witness ==
    /\ xpc = "returned"
    /\ query_scm # None
    /\ ts_chunker = None
    /\ ArchitectureOutput = <<>>
    /\ returned_chunks = ParagraphOutput
    /\ returned_chunks # <<>>

\* C13 as stated: no chunk that the grammar-driven strategy returned is named
\* "unknown" or "anonymous", and none has a content length outside
\* [min_size, max_size]
C13_QualityGate ==
    (xpc = "returned" /\ ts_result.chunks # <<>>) =>
        /\ returned_chunks = ts_result.chunks
        /\ \A i \in 1..Len(returned_chunks) : _should_include_chunk(returned_chunks[i])

\* C14: for an empty or whitespace-only text, whatever the language and its
\* archetype, extract_chunks returns an empty list
C14_BlankTextNoChunks ==
    (xpc = "returned" /\ strip(source_code) = <<>>) => returned_chunks = <<>>

\* the lines of the text of the call
SourceLines == split_lines(source_code)
\* the first lines of the heading-delimited runs: line 1 and every heading line
RunStarts == {i \in 1..Len(SourceLines) : i = 1 \/ heading_match(SourceLines[i])}
\* the first and the last line of the k-th run
RunStart(k) == CHOOSE i \in RunStarts : Cardinality({j \in RunStarts : j <= i}) = k
RunEnd(k) == IF k = Cardinality(RunStarts) THEN Len(SourceLines) ELSE RunStart(k + 1) - 1
\* extract returned what the heading fallback made of the text
HeadingFallback ==
    xpc = "returned" /\ chunker_language = "markdown" /\ ts_result.chunks = <<>>
\* "# Intro\ntext\n## Setup\nmore"
HeadingScenario ==
    <<"#", " ", "I", "n", "t", "r", "o", "\n", "t", "e", "x", "t", "\n",
      "#", "#", " ", "S", "e", "t", "u", "p", "\n", "m", "o", "r", "e">>

NoBlankLine(t) == \A i \in 1..Len(t) : blank_line_match(t, i) = 0
\* extract returned what the paragraph fallback made of the text: the
\* architecture's own fallback is the paragraph one, or it yielded nothing
ParagraphFallback ==
    /\ xpc = "returned"
    /\ ts_result.chunks = <<>>
    /\ \/ get_architecture(chunker_language) = "function_based"
       \/ ArchitectureOutput = <<>>

\* C20 as stated: a text without a blank line that reaches the paragraph
\* fallback yields no chunk
C20_Original ==
    (ParagraphFallback /\ NoBlankLine(source_code)) => returned_chunks = <<>>

\* C20: a text without a blank line that reaches the paragraph fallback yields
\* exactly one chunk, paragraph_1, holding the whole text stripped of
\* surrounding white space on lines 1 to 1 + its newlines, and no chunk only
\* when the text is all white space
C20_NoBlankLineOneChunk ==
    (ParagraphFallback /\ NoBlankLine(source_code)) =>
        returned_chunks =
            IF strip(source_code) = <<>> THEN <<>>
            ELSE <<CodeChunk("paragraph", Name("paragraph_", 1, <<>>), strip(source_code),
                             1, 1 + count_newlines(strip(source_code)))>>

\* the paragraph fallback has answered with one chunk for "a\nb\nc"
C20_Witness ==
    /\ ParagraphFallback
    /\ NoBlankLine(source_code)
    /\ source_code = <<"a", "\n", "b", "\n", "c">>
    /\ Len(returned_chunks) = 1
    /\ returned_chunks[1].line_end = 3

\* C29: every chunk extract returns, whichever strategy produced it, has
\* 1 <= line_start <= line_end
C29_LineOrder ==
    xpc = "returned" =>
        \A i \in 1..Len(returned_chunks) :
            /\ 1 <= returned_chunks[i].line_start
            /\ returned_chunks[i].line_start <= returned_chunks[i].line_end

\* C29 witness: the paragraph fallback returned two chunks of two lines
\* each for "a\nb\n\nc\nd\n", the second on lines 4 to 5
C29_Witness ==
    /\ ParagraphFallback
    /\ source_code = <<"a", "\n", "b", "\n", "\n", "c", "\n", "d", "\n">>
    /\ Len(returned_chunks) = 2
    /\ returned_chunks[1].line_start = 1 /\ returned_chunks[1].line_end = 2
    /\ returned_chunks[2].line_start = 4 /\ returned_chunks[2].line_end = 5

\* where each piece of re.split(r'\n\s*\n', t) starts in t
RECURSIVE PieceStarts(_, _, _)
PieceStarts(t, i, start) ==
    IF i > Len(t) THEN <<start>>
    ELSE LET e == blank_line_match(t, i)
         IN IF e = 0 THEN PieceStarts(t, i + 1, start)
            ELSE <<start>> \o PieceStarts(t, e + 1, e + 1)

\* the position in t of the first character of the content of paragraph i
ContentStart(t, i) ==
    LET piece == re_split(t, 1, 1)[i]
    IN PieceStarts(t, 1, 1)[i] + (Len(piece) - Len(lstrip(piece)))

\* C30: each chunk of the paragraph fallback has line_start equal to 1 plus
\* the number of newlines of the source before the first character of its
\* content, and line_end equal to line_start plus the number of newlines
\* inside the content
C30_ParagraphLines ==
    ParagraphFallback =>
        \A k \in 1..Len(returned_chunks) :
            LET c == returned_chunks[k]
                p == ContentStart(source_code, c.name.n)
            IN /\ SubSeq(source_code, p, p + Len(c.content) - 1) = c.content
               /\ c.line_start = 1 + count_newlines(SubSeq(source_code, 1, p - 1))
               /\ c.line_end = c.line_start + count_newlines(c.content)

====
